---- MODULE Spec2Model ----
(***************************************************************************)
(* ElectronBonder web client (electronbonder/client.py and the older       *)
(* electronbonder/client/web_client.py): construction of the client and    *)
(* its session, the proxied HTTP verbs with their URL rewrite, the two     *)
(* authorisation flows, the paged-list generator get_paged, and the retry  *)
(* policy that retry_session mounts on the session.                        *)
(*                                                                         *)
(* Text is modelled as a sequence of tokens.  A token is one character,    *)
(* except "http", which stands for the four letters of that scheme name.   *)
(***************************************************************************)
EXTENDS Integers, Sequences, FiniteSets, TLC

VARIABLES
    variant,     \* which source file the client class comes from
    phase,       \* "new" before __init__ has run, "ready" after
    config,      \* self.config: the keyword arguments given to __init__
    hasattr,     \* whether the instance already has a `session` attribute
    session,     \* self.session: the identity of the session object in use
    created,     \* number of Session objects retry_session has created
    mounted,     \* per session: the retry policy of its mounted adapters
    headers,     \* per session: its default headers
    sent,        \* the last request handed to a session method
    outcome,     \* how the last client operation ended
    gen,         \* the get_paged generators, by generator id
    xfer,        \* one request in the hands of the retrying adapter
    url_arg,     \* the URL a caller has at hand for the verbs
    reply        \* what the last authorisation request was answered with

vars == <<variant, phase, config, hasattr, session, created, mounted,
          headers, sent, outcome, gen, xfer, url_arg, reply>>

-----------------------------------------------------------------------------
(* Bounds of the model.                                                    *)

\* longest URL (in tokens) a caller passes to a proxied verb
MaxUrlLen == 3
\* most pages one get_paged call fetches
MaxPages == 3
\* largest `retries` argument given to retry_session, and most failing answers
MaxRetries == 6

-----------------------------------------------------------------------------
(* Text helpers: str.rstrip, str.lstrip, str.find, str.join.               *)

Min(S) == CHOOSE x \in S : \A y \in S : x <= y
Max(S) == CHOOSE x \in S : \A y \in S : x >= y

\* s[a..b] as Python's slice s[a-1:b]
Slice(s, a, b) == IF a > b THEN << >> ELSE SubSeq(s, a, b)

\* Python's s.find(c, start): first 1-based position >= start holding c, 0 if none
Find(s, c, start) ==
    LET I == {i \in start..Len(s) : s[i] = c}
    IN  IF I = {} THEN 0 ELSE Min(I)

\* Python's s.rfind(c): last 1-based position holding c, 0 if none
RFind(s, c) ==
    LET I == {i \in 1..Len(s) : s[i] = c}
    IN  IF I = {} THEN 0 ELSE Max(I)

Last(q) == q[Len(q)]
Front(q) == SubSeq(q, 1, Len(q) - 1)

Contains(s, c) == \E i \in 1..Len(s) : s[i] = c

RECURSIVE rstrip(_, _)
rstrip(s, c) ==
    IF s # << >> /\ s[Len(s)] = c THEN rstrip(SubSeq(s, 1, Len(s) - 1), c) ELSE s

RECURSIVE lstrip(_, _)
lstrip(s, c) ==
    IF s # << >> /\ s[1] = c THEN lstrip(Tail(s), c) ELSE s

\* "/".join([a, b])
join(a, b) == a \o <<"/">> \o b

-----------------------------------------------------------------------------
(* urllib.parse.urlparse, as http_method calls it.                         *)

Letters == {"http", "a"}
Tokens == Letters \cup {":", "/", "?", "#", ";"}

\* the members of urllib.parse.uses_params the tokens can spell
uses_params == { << >>, <<"http">> }

\* _splitnetloc(url, 2): the netloc ends at the first of "/", "?", "#"
splitnetloc(url) ==
    LET D == {i \in 3..Len(url) : url[i] \in {"/", "?", "#"}}
        delim == IF D = {} THEN Len(url) + 1 ELSE Min(D)
    IN  [netloc |-> Slice(url, 3, delim - 1), rest |-> Slice(url, delim, Len(url))]

\* url.split(c, 1) when c occurs in url
SplitOnce(url, c) ==
    LET i == Find(url, c, 1)
    IN  [head |-> Slice(url, 1, i - 1), tail |-> Slice(url, i + 1, Len(url))]

urlsplit(url) ==
    LET i == Find(url, ":", 1)
        isScheme == /\ i > 1
                    /\ \A j \in 1..(i - 1) : url[j] \in Letters
        scheme == IF isScheme THEN Slice(url, 1, i - 1) ELSE << >>
        u1 == IF isScheme THEN Slice(url, i + 1, Len(url)) ELSE url
        hasNetloc == Len(u1) >= 2 /\ u1[1] = "/" /\ u1[2] = "/"
        netloc == IF hasNetloc THEN splitnetloc(u1).netloc ELSE << >>
        u2 == IF hasNetloc THEN splitnetloc(u1).rest ELSE u1
        hasFrag == Contains(u2, "#")
        fragment == IF hasFrag THEN SplitOnce(u2, "#").tail ELSE << >>
        u3 == IF hasFrag THEN SplitOnce(u2, "#").head ELSE u2
        hasQuery == Contains(u3, "?")
        query == IF hasQuery THEN SplitOnce(u3, "?").tail ELSE << >>
        u4 == IF hasQuery THEN SplitOnce(u3, "?").head ELSE u3
    IN  [scheme |-> scheme, netloc |-> netloc, path |-> u4,
         query |-> query, fragment |-> fragment]

\* _splitparams(url): the parameters of the last path segment
splitparams(url) ==
    LET i == IF Contains(url, "/")
             THEN Find(url, ";", RFind(url, "/"))
             ELSE Find(url, ";", 1)
    IN  IF i = 0
        THEN [path |-> url, params |-> << >>]
        ELSE [path |-> Slice(url, 1, i - 1), params |-> Slice(url, i + 1, Len(url))]

urlparse(url) ==
    LET s == urlsplit(url)
        split == s.scheme \in uses_params /\ Contains(s.path, ";")
    IN  [scheme |-> s.scheme, netloc |-> s.netloc,
         path |-> IF split THEN splitparams(s.path).path ELSE s.path,
         params |-> IF split THEN splitparams(s.path).params ELSE << >>,
         query |-> s.query, fragment |-> s.fragment]

-----------------------------------------------------------------------------
(* http_meth_factory: the URL a proxied verb hands to the session.         *)

\* full_url that keeps the host the caller's URL names, when it names one
full_url_keephost(baseurl, url) ==
    IF urlparse(url).netloc # << >>
    THEN <<"http", ":", "/", "/">> \o urlparse(url).netloc
            \o <<"/">> \o lstrip(urlparse(url).path, "/")
    ELSE join(rstrip(baseurl, "/"), lstrip(urlparse(url).path, "/"))

\* full_url of http_method: the path of `url` re-joined onto the base URL
full_url(baseurl, url) ==
    join(rstrip(baseurl, "/"), lstrip(urlparse(url).path, "/"))

-----------------------------------------------------------------------------
(* Values of the client's state.                                           *)

Variants == {"client", "web_client"}

\* the proxied verbs each variant's metaclass installs
Verbs(v) ==
    IF v = "client"
    THEN {"get", "post", "head", "patch", "put", "delete", "options"}
    ELSE {"get", "post", "head", "put", "delete", "options"}

\* session objects: the one given as config["session"], the one the instance
\* already has as attribute `session`, the one retry_session creates
Sessions == {"supplied", "preset", "fresh"}
NoSession == "none"

Absent == "<absent>"
AccessTokens == {"abc", "xyz"}

\* the header value without its scheme
Bearer_bare(token) == token

\* "Bearer {}".format(token)
Bearer(token) == "Bearer " \o token

\* the default headers of a requests Session nobody has touched
DefaultHeaders ==
    [Accept |-> "*/*", UserAgent |-> "python-requests", Authorization |-> Absent]

BaseUrls ==
    { <<"http", ":", "/", "/", "a">>,
      <<"http", ":", "/", "/", "a", "/">>,
      <<"http", ":", "/", "/", "a", "/", "a", "/", "/">> }

RECURSIVE SeqsUpTo(_, _)
SeqsUpTo(S, n) ==
    IF n = 0 THEN { << >> }
    ELSE LET R == SeqsUpTo(S, n - 1)
         IN  R \cup {Append(r, x) : r \in {q \in R : Len(q) = n - 1}, x \in S}

\* every URL a caller can spell within the bound: up to MaxUrlLen tokens, or
\* another host (with or without a scheme) followed by fewer
UrlPrefixes ==
    { <<"http", ":", "/", "/", "a", "a">>, <<"/", "/", "a", "a">> }
Urls ==
    SeqsUpTo(Tokens, MaxUrlLen)
    \cup { p \o t : p \in UrlPrefixes, t \in SeqsUpTo(Tokens, MaxUrlLen - 1) }

\* the URLs the client-lifecycle specification passes to the verbs
FewUrls == { <<"http", ":", "/", "/", "a", "a", "/", "a", "?", "a">> }

\* query parameters of a request: `page` (0 when there is none) and whether the
\* caller's own entry `q` is among them
NoParams == [page |-> 0, q |-> FALSE]

NoRequest ==
    [session |-> NoSession, via |-> "none", meth |-> "none", arg |-> << >>,
     url |-> << >>,
     headers |-> DefaultHeaders, params |-> NoParams, kw |-> FALSE]

NoOutcome == [op |-> "none", kind |-> "none", exc |-> "none", val |-> "", status |-> 0]

-----------------------------------------------------------------------------
(* retry_session and ElectronBond.__init__.                                *)

ClientRetries == 5
StatusForcelist == {500, 502, 503, 504}

\* the retry policy of a session whose adapters nobody has replaced
\* (requests mounts adapters that never retry)
DefaultAdapter == [total |-> 0, status_forcelist |-> {}]

\* retry_session counting attempts where Retry counts retries
retry_session_attempts(retries, given) ==
    [session |-> IF given # NoSession THEN given ELSE "fresh",
     isnew   |-> given = NoSession,
     adapter |-> [total |-> retries - 1, status_forcelist |-> StatusForcelist]]

\* retry_session(retries, session): the session it returns and the Retry it mounts
retry_session(retries, given) ==
    [session |-> IF given # NoSession THEN given ELSE "fresh",
     isnew   |-> given = NoSession,
     adapter |-> [total |-> retries, status_forcelist |-> StatusForcelist]]

\* the headers __init__ sets on the session
init_headers(h) ==
    [h EXCEPT !.Accept = "application/json", !.UserAgent = "ElectronBond/0.1"]

\* __init__ without the hasattr test: a session is always made
init_session_always(cfg, has) ==
    LET r == retry_session(ClientRetries, NoSession)
    IN  [session |-> r.session, isnew |-> r.isnew, mount |-> TRUE,
         adapter |-> r.adapter]

\* __init__: an existing `session` attribute is kept, else retry_session(retries=5)
\* makes one; config["session"] is stored in config and never read
init_session(cfg, has) ==
    IF has
    THEN [session |-> "preset", isnew |-> FALSE, mount |-> FALSE,
          adapter |-> DefaultAdapter]
    ELSE LET r == retry_session(ClientRetries, NoSession)
         IN  [session |-> r.session, isnew |-> r.isnew, mount |-> TRUE,
              adapter |-> r.adapter]

Construct ==
    /\ phase = "new"
    /\ LET r == init_session(config, hasattr)
       IN  /\ session' = r.session
           /\ created' = IF r.isnew THEN created + 1 ELSE created
           /\ mounted' = IF r.mount
                         THEN [mounted EXCEPT ![r.session] = r.adapter]
                         ELSE mounted
           /\ headers' = [headers EXCEPT ![r.session] = init_headers(headers[r.session])]
    /\ phase' = "ready"
    /\ UNCHANGED <<variant, config, hasattr, sent, outcome, gen, xfer, url_arg, reply>>

-----------------------------------------------------------------------------
(* The proxied verbs.                                                      *)

\* what the session method is called with: the session merges its default
\* headers into the request.  via: through a proxied verb, or directly
request(s, via, meth, arg, url, params, kw) ==
    [session |-> s, via |-> via, meth |-> meth, arg |-> arg, url |-> url,
     headers |-> headers[s], params |-> params, kw |-> kw]

\* http_method: getattr(self.session, meth)(full_url, *args, **kwargs)
http_method(meth, url, params, kw) ==
    request(session, "proxy", meth, url, full_url(config.baseurl, url), params, kw)

\* a caller invokes one of the verbs; the response is handed back as it is
ProxyVerb(U, S) ==
    /\ phase = "ready"
    /\ \E meth \in Verbs(variant), url \in U, status \in S :
          /\ sent' = http_method(meth, url, NoParams, FALSE)
          /\ outcome' = [op |-> meth, kind |-> "return", exc |-> "none",
                         val |-> "", status |-> status]
    /\ UNCHANGED <<variant, phase, config, hasattr, session, created, mounted,
                   headers, gen, xfer, url_arg, reply>>

\* a caller passes the full URL of the request it made for url_arg, as a
\* link of the API would give it, to a verb again
FeedBack ==
    /\ sent.via = "proxy"
    /\ sent.arg = url_arg
    /\ ProxyVerb({sent.url}, {200})

-----------------------------------------------------------------------------
(* ElectronBond.authorize (client.py only): the password flow.             *)

\* what the POST to the token endpoint can come to: the transport raises, or a
\* response with a status and a body (JSON with `token`, JSON without it, or
\* text that is not JSON)
OkStatuses == {200, 201}
FailStatuses == {202, 204, 403}
Reply(flow, kind, status, body, token, msg) ==
    [flow |-> flow, kind |-> kind, status |-> status, body |-> body,
     token |-> token, msg |-> msg]
NoReply == Reply("none", "none", 0, "none", "", "")
AuthResponses ==
    { Reply("password", "error", 0, "none", "", "") }
    \cup { Reply("password", "response", st, "token", t, "") :
             st \in OkStatuses, t \in AccessTokens }
    \cup { Reply("password", "response", st, "token", "abc", "") :
             st \in FailStatuses }
    \cup { Reply("password", "response", 200, b, "", "") :
             b \in {"notoken", "notjson"} }

\* a test that lets every 2xx status through
auth_failed_2xx(status) == status < 200 \/ status > 299

\* resp.status_code not in [200, 201]
auth_failed(status) == status \notin {200, 201}

\* the URL authorize posts to
token_url(baseurl) == join(rstrip(baseurl, "/"), <<"get-token", "/">>)

\* authorize(): how it ends and the Authorization header it leaves behind
authorize(cfg, auth, resp) ==
    IF ~cfg.cred
    THEN [posted |-> FALSE, auth |-> auth,
          outcome |-> [op |-> "authorize", kind |-> "raise", exc |-> "KeyError",
                       val |-> "", status |-> 0]]
    ELSE IF resp.kind = "error"
    THEN [posted |-> TRUE, auth |-> auth,
          outcome |-> [op |-> "authorize", kind |-> "raise",
                       exc |-> "ConnectionError", val |-> "", status |-> 0]]
    ELSE IF auth_failed(resp.status)
    THEN [posted |-> TRUE, auth |-> auth,
          outcome |-> [op |-> "authorize", kind |-> "raise",
                       exc |-> "ElectronBondAuthError", val |-> "",
                       status |-> resp.status]]
    ELSE IF resp.body = "notjson"
    THEN [posted |-> TRUE, auth |-> auth,
          outcome |-> [op |-> "authorize", kind |-> "raise",
                       exc |-> "JSONDecodeError", val |-> "",
                       status |-> resp.status]]
    ELSE IF resp.body = "notoken"
    THEN [posted |-> TRUE, auth |-> auth,
          outcome |-> [op |-> "authorize", kind |-> "raise", exc |-> "KeyError",
                       val |-> "", status |-> resp.status]]
    ELSE [posted |-> TRUE, auth |-> Bearer(resp.token),
          outcome |-> [op |-> "authorize", kind |-> "return", exc |-> "none",
                       val |-> resp.token, status |-> resp.status]]

Authorize ==
    /\ phase = "ready"
    /\ variant = "client"
    /\ \E resp \in AuthResponses :
          LET r == authorize(config, headers[session].Authorization, resp)
          IN  /\ headers' = [headers EXCEPT ![session].Authorization = r.auth]
              /\ outcome' = r.outcome
              /\ sent' = IF r.posted
                         THEN request(session, "direct", "post", << >>,
                                      token_url(config.baseurl), NoParams, FALSE)
                         ELSE sent
              /\ reply' = IF r.posted THEN resp ELSE NoReply
    /\ UNCHANGED <<variant, phase, config, hasattr, session, created, mounted,
                   gen, xfer, url_arg>>

-----------------------------------------------------------------------------
(* ElectronBond.authorize_oauth (client.py only): client credentials.      *)

\* what fetch_token on the separate OAuth2Session comes to: it raises with a
\* message (the provider refused, or its answer held no `access_token`, which
\* the library turns into an exception before it returns), or it returns a
\* token holding `access_token`
OAuthResults ==
    { Reply("oauth", "error", 0, "none", "", m) :
        m \in {"invalid_client", "missing_token"} }
    \cup { Reply("oauth", "token", 0, "token", t, "") : t \in AccessTokens }

\* authorize_oauth that drops the header when the token fetch fails
authorize_oauth_clearing(cfg, auth, res) ==
    IF ~cfg.oauth \/ res.kind = "error"
    THEN [auth |-> Absent,
          outcome |-> [op |-> "authorize_oauth", kind |-> "raise",
                       exc |-> "ElectronBondAuthError",
                       val |-> res.msg, status |-> 0]]
    ELSE [auth |-> Bearer(res.token),
          outcome |-> [op |-> "authorize_oauth", kind |-> "return",
                       exc |-> "none", val |-> res.token, status |-> 0]]

\* authorize_oauth whose try block starts after the configuration is read
authorize_oauth_uncaught(cfg, auth, res) ==
    IF ~cfg.oauth
    THEN [auth |-> auth,
          outcome |-> [op |-> "authorize_oauth", kind |-> "raise",
                       exc |-> "KeyError",
                       val |-> "'oauth_client_id'", status |-> 0]]
    ELSE IF res.kind = "error"
    THEN [auth |-> auth,
          outcome |-> [op |-> "authorize_oauth", kind |-> "raise",
                       exc |-> "ElectronBondAuthError", val |-> res.msg,
                       status |-> 0]]
    ELSE [auth |-> Bearer(res.token),
          outcome |-> [op |-> "authorize_oauth", kind |-> "return",
                       exc |-> "none", val |-> res.token, status |-> 0]]

authorize_oauth(cfg, auth, res) ==
    IF ~cfg.oauth
    THEN [auth |-> auth,
          outcome |-> [op |-> "authorize_oauth", kind |-> "raise",
                       exc |-> "ElectronBondAuthError",
                       val |-> "'oauth_client_id'", status |-> 0]]
    ELSE IF res.kind = "error"
    THEN [auth |-> auth,
          outcome |-> [op |-> "authorize_oauth", kind |-> "raise",
                       exc |-> "ElectronBondAuthError", val |-> res.msg,
                       status |-> 0]]
    ELSE [auth |-> Bearer(res.token),
          outcome |-> [op |-> "authorize_oauth", kind |-> "return",
                       exc |-> "none", val |-> res.token, status |-> 0]]

AuthorizeOAuth ==
    /\ phase = "ready"
    /\ variant = "client"
    /\ \E res \in OAuthResults :
          LET r == authorize_oauth(config, headers[session].Authorization, res)
          IN  /\ headers' = [headers EXCEPT ![session].Authorization = r.auth]
              /\ outcome' = r.outcome
              /\ reply' = IF config.oauth THEN res ELSE NoReply
    /\ UNCHANGED <<variant, phase, config, hasattr, session, created, mounted,
                   sent, gen, xfer, url_arg>>

-----------------------------------------------------------------------------
(* ElectronBond.get_paged: a generator over the items of a paged list.     *)

GenIds == {1, 2}

\* the parsed JSON of a page.  shape "page": an object whose `results` is an
\* array; "text": an object whose `results` is a string (its characters are in
\* `results`); "nokey": an object without `results`; "nosize": an object whose
\* `results` is null; "notobject": JSON that is no object (an array)
NoJson == [shape |-> "none", results |-> << >>, next |-> FALSE]
Page(r, n) == [shape |-> "page", results |-> r, next |-> n]
PageResults == { << >>, <<"x">>, <<"y">>, <<"x", "y">> }
WellFormed == { Page(r, n) : r \in PageResults, n \in BOOLEAN }
Malformed ==
    { [shape |-> "text", results |-> <<"x", "y">>, next |-> FALSE],
      [shape |-> "nokey", results |-> << >>, next |-> FALSE],
      [shape |-> "nosize", results |-> << >>, next |-> TRUE],
      [shape |-> "notobject", results |-> << >>, next |-> FALSE] }

\* what one GET of get_paged can come to: the transport raises, the body is
\* not JSON (so .json() raises), or the body parses to a payload
Fetch(kind, json) == [kind |-> kind, json |-> json]
Fetches ==
    { Fetch("error", NoJson), Fetch("notjson", NoJson) }
    \cup { Fetch("json", j) : j \in WellFormed \cup Malformed }
FewFetches ==
    { Fetch("error", NoJson), Fetch("json", Page(<<"x">>, FALSE)),
      Fetch("json", Page(<<"y">>, TRUE)) }

\* the exception each failing fetch raises
fetch_exc(f) == IF f.kind = "error" THEN "ConnectionError" ELSE "JSONDecodeError"

\* what the caller passes: params (given or not, with or without `page` and
\* `q`) and whether other keyword arguments come with it
NoCaller == [given |-> FALSE, page |-> 0, q |-> FALSE]
CallerParams ==
    { NoCaller,
      [given |-> TRUE, page |-> 0, q |-> TRUE],
      [given |-> TRUE, page |-> 2, q |-> FALSE] }

NoGen ==
    [pc |-> "none", url |-> << >>, caller |-> NoCaller, kw |-> FALSE,
     params |-> NoParams, json |-> NoJson, idx |-> 0, gets |-> 0,
     served |-> << >>, yielded |-> << >>, reqs |-> << >>,
     exc |-> "none", msg |-> NoJson, fault |-> "none", closed |-> FALSE]

\* params that start at page 1 whatever the caller gave
first_params_fixed(caller) == [page |-> 1, q |-> caller.given /\ caller.q]

\* params = {"page": 1}; params.update(**kwargs["params"])
first_params(caller) ==
    [page |-> IF caller.given /\ caller.page # 0 THEN caller.page ELSE 1,
     q |-> caller.given /\ caller.q]

\* an except clause that catches the missing key alone
caught_keyerror(v, e) == e = "KeyError"

\* whether the except clause around the loop catches exception e
caught(v, e) == IF v = "client" THEN e # "GeneratorExit" ELSE TRUE

\* the generator ends by raising e, with payload j in the message if any
raised(G, e, j) == [G EXCEPT !.pc = "raised", !.exc = e, !.msg = j]

\* an exception e raised inside the try block
in_try(v, G, e) ==
    IF caught(v, e)
    THEN raised(G, "ElectronBondReturnError", G.json)
    ELSE raised(G, e, NoJson)

\* len(current_json["results"]) succeeds
sized(j) == j.shape \in {"page", "text"}

\* the exception len(current_json["results"]) raises otherwise
shape_exc(j) == IF j.shape = "nokey" THEN "KeyError" ELSE "TypeError"

\* the while test on a freshly fetched page, up to the first yield
enter_loop(v, G) ==
    IF ~sized(G.json) THEN in_try(v, G, shape_exc(G.json))
    ELSE IF Len(G.json.results) > 0
    THEN [G EXCEPT !.pc = "suspended", !.idx = 1,
                   !.yielded = Append(@, G.json.results[1])]
    ELSE [G EXCEPT !.pc = "done"]

\* the GET of one page has been issued with G.params: count it (when the GET
\* fails, `fault` keeps the exception it raised, whatever becomes of it)
issued(G, kw) ==
    [G EXCEPT !.gets = @ + 1,
              !.reqs = Append(@, [params |-> G.params, kw |-> kw])]

\* the first next() with params being the caller's own mapping, not a copy:
\* the `page` entry is written into what the caller passed
start_aliasing(v, G, f) ==
    LET G0 == [G EXCEPT !.params = first_params(G.caller)]
        G1 == issued(IF G.caller.given
                     THEN [G0 EXCEPT !.caller.page = G0.params.page]
                     ELSE G0, G.kw)
    IN  IF f.kind # "json"
        THEN raised([G1 EXCEPT !.fault = fetch_exc(f)], fetch_exc(f), NoJson)
        ELSE enter_loop(v, [G1 EXCEPT !.json = f.json,
                                      !.served = Append(@, f.json)])

\* the first next(): lines up to the first yield
start(v, G, f) ==
    LET G1 == issued([G EXCEPT !.params = first_params(G.caller)], G.kw)
    IN  IF f.kind # "json"
        THEN raised([G1 EXCEPT !.fault = fetch_exc(f)], fetch_exc(f), NoJson)
        ELSE enter_loop(v, [G1 EXCEPT !.json = f.json,
                                      !.served = Append(@, f.json)])

\* resume with the page's last item never produced (a bound off by one)
resume_short(v, G, f) ==
    IF G.idx + 1 < Len(G.json.results)
    THEN [G EXCEPT !.idx = @ + 1,
                   !.yielded = Append(@, G.json.results[G.idx + 1])]
    ELSE IF ~G.json.next THEN [G EXCEPT !.pc = "done"]
    ELSE LET G1 == issued([G EXCEPT !.params.page = @ + 1], FALSE)
         IN  IF f.kind # "json"
             THEN in_try(v, [G1 EXCEPT !.fault = fetch_exc(f)], fetch_exc(f))
             ELSE enter_loop(v, [G1 EXCEPT !.json = f.json,
                                           !.served = Append(@, f.json)])

\* resume with the test of `next` left out: every page is followed up
resume_onward(v, G, f) ==
    IF G.idx < Len(G.json.results)
    THEN [G EXCEPT !.idx = @ + 1,
                   !.yielded = Append(@, G.json.results[G.idx + 1])]
    ELSE LET G1 == issued([G EXCEPT !.params.page = @ + 1], FALSE)
         IN  IF f.kind # "json"
             THEN in_try(v, [G1 EXCEPT !.fault = fetch_exc(f)], fetch_exc(f))
             ELSE enter_loop(v, [G1 EXCEPT !.json = f.json,
                                           !.served = Append(@, f.json)])

\* resume that requests the following page while handing out the last item
resume_eager(v, G, f) ==
    IF G.idx < Len(G.json.results)
    THEN LET Y == [G EXCEPT !.idx = @ + 1,
                            !.yielded = Append(@, G.json.results[G.idx + 1])]
         IN  IF Y.idx = Len(G.json.results) /\ G.json.next
             THEN issued([Y EXCEPT !.params.page = @ + 1], FALSE)
             ELSE Y
    ELSE IF ~G.json.next THEN [G EXCEPT !.pc = "done"]
    ELSE IF f.kind # "json"
    THEN in_try(v, [G EXCEPT !.fault = fetch_exc(f)], fetch_exc(f))
    ELSE enter_loop(v, [G EXCEPT !.json = f.json, !.served = Append(@, f.json)])

\* a later next(): from the yield it is suspended at to the next one
resume(v, G, f) ==
    IF G.idx < Len(G.json.results)
    THEN [G EXCEPT !.idx = @ + 1,
                   !.yielded = Append(@, G.json.results[G.idx + 1])]
    ELSE IF ~G.json.next THEN [G EXCEPT !.pc = "done"]
    ELSE LET G1 == issued([G EXCEPT !.params.page = @ + 1], FALSE)
         IN  IF f.kind # "json"
             THEN in_try(v, [G1 EXCEPT !.fault = fetch_exc(f)], fetch_exc(f))
             ELSE enter_loop(v, [G1 EXCEPT !.json = f.json,
                                           !.served = Append(@, f.json)])

next_gen(v, G, f) ==
    IF G.pc = "created" THEN start(v, G, f)
    ELSE IF G.pc = "suspended" THEN resume(v, G, f)
    ELSE G

\* what the consumer's next() gets: G0 before it, G after it
pull_outcome(G0, G) ==
    IF G0.pc \in {"done", "closed", "raised"}
    THEN [op |-> "next", kind |-> "stop", exc |-> "StopIteration", val |-> "",
          status |-> 0]
    ELSE IF G.pc = "suspended"
    THEN [op |-> "next", kind |-> "yield", exc |-> "none",
          val |-> G.json.results[G.idx], status |-> 0]
    ELSE IF G.pc = "raised" /\ G.exc # "none"
    THEN [op |-> "next", kind |-> "raise", exc |-> G.exc, val |-> "", status |-> 0]
    ELSE [op |-> "next", kind |-> "stop", exc |-> "StopIteration", val |-> "",
          status |-> 0]


\* generator.close(): GeneratorExit is thrown in at the yield
close_gen(v, G) ==
    IF G.pc = "suspended" THEN
        IF caught(v, "GeneratorExit")
        THEN raised([G EXCEPT !.closed = TRUE], "ElectronBondReturnError", G.json)
        ELSE [G EXCEPT !.pc = "closed", !.closed = TRUE]
    ELSE IF G.pc = "created" THEN [G EXCEPT !.pc = "closed", !.closed = TRUE]
    ELSE G

\* calling get_paged makes the generator; none of its code has run yet
CallGetPaged(g, U, C, K) ==
    /\ phase = "ready"
    /\ gen[g].pc = "none"
    /\ \E url \in U, c \in C, kw \in K :
          gen' = [gen EXCEPT ![g] = [NoGen EXCEPT !.pc = "created", !.url = url,
                                                  !.caller = c, !.kw = kw]]
    /\ outcome' = [op |-> "get_paged", kind |-> "return", exc |-> "none",
                   val |-> "", status |-> 0]
    /\ UNCHANGED <<variant, phase, config, hasattr, session, created, mounted,
                   headers, sent, xfer, url_arg, reply>>

\* next() with the page number kept in one place for all the sequences of
\* the client
Pull_shared(g, F) ==
    /\ phase = "ready"
    /\ gen[g].pc # "none"
    /\ \E f \in F :
          LET G == next_gen(variant, gen[g], f)
          IN  /\ G.gets <= MaxPages
              /\ gen' = [h \in GenIds |->
                            IF h = g THEN G
                            ELSE [gen[h] EXCEPT !.params.page = G.params.page]]
              /\ sent' = IF G.gets > gen[g].gets
                         THEN http_method("get", G.url, Last(G.reqs).params,
                                          Last(G.reqs).kw)
                         ELSE sent
              /\ outcome' = pull_outcome(gen[g], G)
    /\ UNCHANGED <<variant, phase, config, hasattr, session, created, mounted,
                   headers, xfer, url_arg, reply>>

\* the consumer's next() on generator g; f is what the GET comes to if this
\* next() issues one
Pull(g, F) ==
    /\ phase = "ready"
    /\ gen[g].pc # "none"
    /\ \E f \in F :
          LET G == next_gen(variant, gen[g], f)
          IN  /\ G.gets <= MaxPages
              /\ gen' = [gen EXCEPT ![g] = G]
              /\ sent' = IF G.gets > gen[g].gets
                         THEN http_method("get", G.url, Last(G.reqs).params,
                                          Last(G.reqs).kw)
                         ELSE sent
              /\ outcome' = pull_outcome(gen[g], G)
    /\ UNCHANGED <<variant, phase, config, hasattr, session, created, mounted,
                   headers, xfer, url_arg, reply>>

\* the consumer abandons generator g
Close(g) ==
    /\ phase = "ready"
    /\ gen[g].pc \in {"created", "suspended"}
    /\ LET G == close_gen(variant, gen[g])
       IN  /\ gen' = [gen EXCEPT ![g] = G]
           /\ outcome' = IF G.pc = "raised"
                         THEN [op |-> "close", kind |-> "raise", exc |-> G.exc,
                               val |-> "", status |-> 0]
                         ELSE [op |-> "close", kind |-> "return", exc |-> "none",
                               val |-> "", status |-> 0]
    /\ UNCHANGED <<variant, phase, config, hasattr, session, created, mounted,
                   headers, sent, xfer, url_arg, reply>>

-----------------------------------------------------------------------------
(* The Retry policy retry_session mounts: one request through the adapter. *)

\* the methods urllib3's Retry retries on a status of the forcelist when, as
\* here, no allowed_methods is given
RetryMethods == {"delete", "get", "head", "options", "put", "trace"}

NoXfer == [state |-> "idle", meth |-> "none", k |-> 0, attempts |-> 0,
           total |-> 0, status |-> 0]

\* Retry.is_retry(method, status_code)
is_retry(adapter, meth, status) ==
    /\ meth \in RetryMethods
    /\ status \in adapter.status_forcelist

\* the server of the retry scenario: 503 to the first k attempts, 200 afterwards
answer(k, attempt) == IF attempt <= k THEN 503 ELSE 200

\* a request is handed to the session's adapter
StartRequest ==
    /\ phase = "ready"
    /\ xfer.state # "sending"
    /\ \E meth \in Verbs(variant), k \in 0..(MaxRetries + 1) :
          xfer' = [state |-> "sending", meth |-> meth, k |-> k, attempts |-> 0,
                   total |-> mounted[session].total, status |-> 0]
    /\ UNCHANGED <<variant, phase, config, hasattr, session, created, mounted,
                   headers, sent, outcome, gen, url_arg, reply>>

\* one attempt: the response is returned, or the attempt is retried, or the
\* retries are exhausted and the adapter raises
Attempt ==
    /\ xfer.state = "sending"
    /\ LET n == xfer.attempts + 1
           st == answer(xfer.k, n)
       IN  IF ~is_retry(mounted[session], xfer.meth, st)
           THEN xfer' = [xfer EXCEPT !.attempts = n, !.status = st,
                                     !.state = "returned"]
           ELSE IF xfer.total - 1 < 0
           THEN xfer' = [xfer EXCEPT !.attempts = n, !.status = st,
                                     !.total = @ - 1, !.state = "raised"]
           ELSE xfer' = [xfer EXCEPT !.attempts = n, !.status = st,
                                     !.total = @ - 1]
    /\ UNCHANGED <<variant, phase, config, hasattr, session, created, mounted,
                   headers, sent, outcome, gen, url_arg, reply>>

-----------------------------------------------------------------------------
(* Specifications.                                                         *)

\* the keyword arguments: the base URL, with or without `session`, with the
\* username and password, the oauth_* entries, or both
Configs(B) ==
    { c \in [baseurl : B, session : BOOLEAN, cred : BOOLEAN, oauth : BOOLEAN] :
        c.cred \/ c.oauth }

\* before __init__: the keyword arguments are chosen, and the class may
\* already give the instance a `session` attribute
InitNew(B, A, R) ==
    /\ variant \in Variants
    /\ phase = "new"
    /\ config \in Configs(B)
    /\ hasattr \in BOOLEAN
    /\ session = IF hasattr THEN "preset" ELSE NoSession
    /\ created = 0
    /\ \E a \in R :
          mounted = [s \in Sessions |->
                        IF s = "preset" /\ hasattr THEN a ELSE DefaultAdapter]
    /\ headers = [s \in Sessions |-> DefaultHeaders]
    /\ sent = NoRequest
    /\ outcome = NoOutcome
    /\ gen = [g \in GenIds |-> NoGen]
    /\ xfer = NoXfer
    /\ url_arg \in A
    /\ reply = NoReply

\* a client on which __init__ has run, with the session it made itself
InitReady(B, A) ==
    /\ variant \in Variants
    /\ phase = "ready"
    /\ config \in {c \in Configs(B) : ~c.session /\ c.cred /\ c.oauth}
    /\ hasattr = FALSE
    /\ LET r == init_session(config, hasattr)
       IN  /\ session = r.session
           /\ created = 1
           /\ mounted = [s \in Sessions |->
                            IF s = r.session THEN r.adapter ELSE DefaultAdapter]
           /\ headers = [s \in Sessions |->
                            IF s = r.session THEN init_headers(DefaultHeaders)
                            ELSE DefaultHeaders]
    /\ sent = NoRequest
    /\ outcome = NoOutcome
    /\ gen = [g \in GenIds |-> NoGen]
    /\ xfer = NoXfer
    /\ url_arg \in A
    /\ reply = NoReply

OneBase == { <<"http", ":", "/", "/", "a", "/">> }
PagedUrls == { <<"/", "a">> }

\* the life of one client: construction, verbs, both authorisations, one
\* get_paged sequence
Init == InitNew(OneBase, {<< >>}, {DefaultAdapter})
Next ==
    \/ Construct
    \/ ProxyVerb(FewUrls, {200})
    \/ Authorize
    \/ AuthorizeOAuth
    \/ CallGetPaged(1, PagedUrls, {NoCaller}, {FALSE})
    \/ Pull(1, FewFetches)
Spec == Init /\ [][Next]_vars

\* one get_paged sequence against every kind of page
InitPaged == InitReady(OneBase, {<< >>})
NextPaged ==
    \/ CallGetPaged(1, PagedUrls, CallerParams, BOOLEAN)
    \/ Pull(1, Fetches)
    \/ Close(1)
SpecPaged == InitPaged /\ [][NextPaged]_vars

\* the verbs on every URL within the bound
InitUrl == InitReady(BaseUrls, Urls)
NextUrl == ProxyVerb({url_arg}, {200})
SpecUrl == InitUrl /\ [][NextUrl]_vars

\* the verbs on every URL within the bound, and on the full URL they made
InitFeed == InitReady(BaseUrls, Urls)
NextFeed ==
    \/ ProxyVerb({url_arg}, {200})
    \/ FeedBack
SpecFeed == InitFeed /\ [][NextFeed]_vars

\* requests through the retrying adapter: the client's own session, or a
\* session a subclass built with retry_session(retries=n) and set as attribute
PresetAdapters ==
    {DefaultAdapter} \cup {retry_session(n, "preset").adapter : n \in 0..MaxRetries}
InitRetry ==
    /\ InitNew(OneBase, {<< >>}, PresetAdapters)
    /\ ~config.session /\ config.cred /\ config.oauth
NextRetry ==
    \/ Construct
    \/ StartRequest
    \/ Attempt
SpecRetry == InitRetry /\ [][NextRetry]_vars

\* two get_paged sequences of one client, consumed in any interleaving
ListUrls == { <<"/", "a">>, <<"/", "a", "/", "a">> }
InitTwo == InitReady(OneBase, {<< >>})
NextTwo ==
    \/ CallGetPaged(1, ListUrls, CallerParams, {FALSE})
    \/ CallGetPaged(2, ListUrls, CallerParams, {FALSE})
    \/ Pull(1, FewFetches)
    \/ Pull(2, FewFetches)
    \/ Close(1)
    \/ Close(2)
SpecTwo == InitTwo /\ [][NextTwo]_vars

\* a get_paged sequence, and after it has issued a request a second call
\* that is given the mapping the first was given, as that mapping is by then
CallAgain ==
    /\ gen[1].gets > 0
    /\ CallGetPaged(2, PagedUrls, {gen[1].caller}, {FALSE})
InitAgain == InitReady(OneBase, {<< >>})
NextAgain ==
    \/ CallGetPaged(1, PagedUrls, CallerParams, {FALSE})
    \/ Pull(1, FewFetches)
    \/ Close(1)
    \/ CallAgain
    \/ Pull(2, FewFetches)
SpecAgain == InitAgain /\ [][NextAgain]_vars

-----------------------------------------------------------------------------
(* Properties of get_paged, checked under SpecPaged.                       *)

RECURSIVE Concat(_)
Concat(pages) ==
    IF pages = << >> THEN << >>
    ELSE pages[1].results \o Concat(Tail(pages))

IsPrefix(a, b) == Len(a) <= Len(b) /\ a = SubSeq(b, 1, Len(a))

\* pages 1..N-1 have items and a truthy next, page N has items and no next
FullRun(pages) ==
    /\ pages # << >>
    /\ \A i \in 1..Len(pages) :
          /\ pages[i].shape = "page"
          /\ pages[i].results # << >>
          /\ pages[i].next <=> i < Len(pages)

\* C1: when the pages served are 1..N, all with items, all but the last with a
\* truthy next, the sequence (consumed by next() alone) raises nothing, has issued exactly N GETs, has
\* produced a prefix of the pages' items in page and in-array order, and once
\* it has ended it has produced them all.
C1_ConcatenationInOrder ==
    LET G == gen[1]
    IN  (FullRun(G.served) /\ ~G.closed) =>
          /\ G.pc \in {"suspended", "done"}
          /\ G.gets = Len(G.served)
          /\ Len(G.reqs) = Len(G.served)
          /\ IsPrefix(G.yielded, Concat(G.served))
          /\ (G.pc = "done" => G.yielded = Concat(G.served))

C1_Witness ==
    /\ gen[1].pc = "done"
    /\ Len(gen[1].served) = 3
    /\ FullRun(gen[1].served)
    /\ gen[1].yielded = <<"x", "y", "y", "x">>

\* a page that ends the sequence: an array of results that is empty, or no next
Terminal(j) == j.shape = "page" /\ (j.results = << >> \/ ~j.next)
Onward(j) == j.shape = "page" /\ j.results # << >> /\ j.next

\* C9: when the N-th page fetched is the first with an empty results array or
\* without a next, no page is fetched after it: N GETs were issued and (the
\* sequence being consumed by next() alone) nothing is raised; if its results are empty the sequence has already ended, and a
\* first page with empty results ends it with no item produced.
C9_StopsAtTerminalPage ==
    LET G == gen[1]
    IN  \A n \in 1..Len(G.served) :
          (/\ Terminal(G.served[n])
           /\ \A i \in 1..(n - 1) : Onward(G.served[i])
           /\ ~G.closed) =>
            /\ n = Len(G.served)
            /\ G.gets = n
            /\ G.exc = "none"
            /\ (G.served[n].results = << >> => G.pc = "done")
            /\ (n = 1 /\ G.served[1].results = << >> => G.yielded = << >>)

C9_Witness ==
    /\ gen[1].pc = "done"
    /\ gen[1].served = <<Page(<< >>, TRUE)>>
    /\ gen[1].gets = 1
    /\ outcome.kind = "stop"

\* the shapes on which len(current_json["results"]) raises
Unsized == {"nokey", "nosize", "notobject"}

\* C6 as claimed: a page that lacks `results` or otherwise has not the
\* {results: array, next} shape makes the sequence raise the return error
\* with that page's payload in the message.
C6_AnyMalformedPageRaises ==
    LET G == gen[1]
    IN  (G.served # << >> /\ Last(G.served).shape # "page") =>
          /\ G.pc = "raised"
          /\ G.exc = "ElectronBondReturnError"
          /\ G.msg = Last(G.served)

\* C6 as amended: a page that lacks `results`, is no JSON object, or whose
\* `results` has no length makes the sequence raise the return error with that
\* page's payload in the message; the items of the pages before it have all
\* been produced, and nothing is produced and no GET issued after it.
C6_UnsizedPageRaises ==
    LET G == gen[1]
    IN  (G.served # << >> /\ Last(G.served).shape \in Unsized) =>
          /\ G.pc = "raised"
          /\ G.exc = "ElectronBondReturnError"
          /\ G.msg = Last(G.served)
          /\ G.yielded = Concat(Front(G.served))
          /\ G.gets = Len(G.served)

C6_Witness ==
    /\ gen[1].pc = "raised"
    /\ Len(gen[1].served) = 2
    /\ Last(gen[1].served).shape = "nosize"
    /\ gen[1].yielded = <<"x", "y">>
    /\ outcome.kind = "stop"

\* C7 as claimed: an exception the transport raises during a GET of get_paged
\* reaches the consumer as that same exception.
C7_TransportErrorUnchanged ==
    gen[1].fault = "ConnectionError" => gen[1].exc = "ConnectionError"

-----------------------------------------------------------------------------
(* The URL rewrite of the proxied verbs, checked under SpecUrl.            *)

\* number of tokens c at the end, and at the start, of s
RECURSIVE Trailing(_, _)
Trailing(s, c) ==
    IF s = << >> \/ Last(s) # c THEN 0 ELSE 1 + Trailing(Front(s), c)
RECURSIVE Leading(_, _)
Leading(s, c) ==
    IF s = << >> \/ s[1] # c THEN 0 ELSE 1 + Leading(Tail(s), c)

AllVerbs == {"get", "post", "head", "put", "patch", "delete", "options"}

\* C2: the URL a proxied verb hands to the session's method of the same name
\* is the base URL without its trailing slashes, one "/", and the path of the
\* caller's URL without its leading slashes; its scheme and host are those of
\* the base URL, whatever the caller's URL names.
C2_RequestTargetsBaseurl ==
    sent.via = "proxy" =>
        LET b == config.baseurl
            p == urlparse(sent.arg).path
        IN  /\ sent.url = SubSeq(b, 1, Len(b) - Trailing(b, "/")) \o <<"/">>
                            \o SubSeq(p, Leading(p, "/") + 1, Len(p))
            /\ urlparse(sent.url).scheme = urlparse(b).scheme
            /\ urlparse(sent.url).netloc = urlparse(b).netloc
            /\ sent.meth = outcome.op
            /\ sent.meth \in AllVerbs
            /\ sent.session = session

\* a verb was given a URL naming another host, with a path, and a query
C2_Witness ==
    /\ sent.via = "proxy"
    /\ sent.meth = "delete"
    /\ config.baseurl = <<"http", ":", "/", "/", "a", "/", "a", "/", "/">>
    /\ sent.arg = <<"/", "/", "a", "a", "/", "a">>
    /\ sent.arg \notin SeqsUpTo(Tokens, MaxUrlLen)
    /\ urlparse(sent.arg).netloc = <<"a", "a">>
    /\ sent.url = <<"http", ":", "/", "/", "a", "/", "a", "/", "a">>

-----------------------------------------------------------------------------
(* Authorisation and construction, checked under Spec.                     *)

Authorization == headers[session].Authorization

\* the token endpoint answered 200 or 201 with a body holding `token`
TokenGranted ==
    /\ reply.flow = "password"
    /\ reply.kind = "response"
    /\ reply.status \in {200, 201}
    /\ reply.body = "token"

\* C3: once the token endpoint has answered 200 or 201 with token t,
\* authorize() has returned t, the session's Authorization header is
\* "Bearer t", and the proxied requests issued since carry that header.
C3_AuthorizeSetsBearer ==
    TokenGranted =>
        /\ Authorization = "Bearer " \o reply.token
        /\ outcome.op = "authorize" =>
              /\ outcome.kind = "return"
              /\ outcome.val = reply.token
              /\ sent.via = "direct" /\ sent.meth = "post"
              /\ sent.url = SubSeq(config.baseurl, 1,
                                   Len(config.baseurl) - Trailing(config.baseurl, "/"))
                              \o <<"/", "get-token", "/">>
        /\ sent.via = "proxy" =>
              sent.headers.Authorization = "Bearer " \o reply.token

\* a proxied request went out after authorize() had been answered 201
C3_Witness ==
    /\ TokenGranted
    /\ reply.status = 201
    /\ reply.token = "xyz"
    /\ sent.via = "proxy"
    /\ sent.meth = "patch"
    /\ sent.headers.Authorization = "Bearer xyz"

\* C4: when the token endpoint answers any status other than 200 and 201,
\* authorize() raises the authorisation error carrying that status, and
\* returns no token.
C4_OtherStatusRaises ==
    (/\ outcome.op = "authorize"
     /\ reply.kind = "response"
     /\ reply.status \notin {200, 201}) =>
        /\ outcome.kind = "raise"
        /\ outcome.exc = "ElectronBondAuthError"
        /\ outcome.status = reply.status
        /\ outcome.val = ""

\* the answer was another 2xx status, with a token in its body
C4_Witness ==
    /\ outcome.op = "authorize"
    /\ reply.kind = "response"
    /\ reply.status = 204
    /\ reply.body = "token"
    /\ outcome.exc = "ElectronBondAuthError"

\* C5: in every step of a constructed client, an Authorization header that
\* is set stays set; it changes only when authorize() or authorize_oauth()
\* returns a token, and then to "Bearer " and that token; and a proxied
\* request issued in the step carries the header as the session holds it.
C5_AuthorizationPersists ==
    [][ (phase = "ready") =>
          /\ Authorization # Absent => Authorization' # Absent
          /\ Authorization' # Authorization =>
                /\ outcome'.op \in {"authorize", "authorize_oauth"}
                /\ outcome'.kind = "return"
                /\ Authorization' = "Bearer " \o outcome'.val
          /\ (outcome'.op \in {"authorize", "authorize_oauth"}
                /\ outcome'.kind = "raise") => Authorization' = Authorization
          /\ (sent' # sent /\ sent'.via = "proxy") =>
                sent'.headers.Authorization = Authorization
      ]_vars

\* with the header set, both flows have failed since, and a page of a
\* get_paged sequence was fetched with the header
C5_Witness ==
    /\ phase = "ready"
    /\ Authorization = "Bearer abc"
    /\ reply.flow = "oauth" /\ reply.kind = "error"
    /\ outcome.op = "next"
    /\ gen[1].gets = 2
    /\ sent.via = "proxy"
    /\ sent.headers.Authorization = "Bearer abc"

\* C10 as claimed: given `session` in the configuration, the client makes no
\* session and uses, and decorates, the one it was given.
C10_ConfigSessionReused ==
    (phase = "ready" /\ config.session) =>
        /\ created = 0
        /\ session = "supplied"
        /\ headers["supplied"].Accept = "application/json"
        /\ headers["supplied"].UserAgent = "ElectronBond/0.1"

\* C10 as amended: a client whose instance already has a `session` attribute
\* makes no session and uses that one; any other client, given `session` in
\* its configuration or not, makes exactly one with retry_session and leaves
\* a configured one untouched.  The session in use carries the Accept and
\* User-Agent headers, every request goes through it, and it is the same
\* session in every state after construction.
C10_AttributeSessionReused ==
    phase = "ready" =>
        /\ hasattr => created = 0 /\ session = "preset"
        /\ ~hasattr => created = 1 /\ session = "fresh"
        /\ headers[session].Accept = "application/json"
        /\ headers[session].UserAgent = "ElectronBond/0.1"
        /\ headers["supplied"] = DefaultHeaders
        /\ sent # NoRequest => sent.session = session

\* a client with both a `session` attribute and a configured session has
\* authorised, called a verb and fetched a page
C10_Witness ==
    /\ phase = "ready"
    /\ hasattr /\ config.session
    /\ session = "preset" /\ created = 0
    /\ Authorization # Absent
    /\ gen[1].gets = 1
    /\ sent.via = "proxy" /\ sent.meth = "get" /\ sent.session = "preset"

-----------------------------------------------------------------------------
(* The retry policy, checked under SpecRetry.                              *)

\* the session in use was built by retry_session, with this many retries
BuiltByRetrySession ==
    phase = "ready" /\ mounted[session].status_forcelist = {500, 502, 503, 504}
Retries == mounted[session].total

\* a finished request against the server that answers 503 k times, then 200:
\* k+1 attempts and success when k <= n, n+1 attempts and failure when k > n
RetriedToTheEnd ==
    /\ xfer.attempts <= Retries + 1
    /\ xfer.state \in {"returned", "raised"} =>
          IF xfer.k <= Retries
          THEN /\ xfer.state = "returned"
               /\ xfer.status = 200
               /\ xfer.attempts = xfer.k + 1
          ELSE /\ xfer.state = "raised"
               /\ xfer.attempts = Retries + 1

\* C8 as claimed: every request through a session built by
\* retry_session(retries=n) is retried so, and the client's own session has
\* n = 5.
C8_EveryRequestRetried ==
    /\ (BuiltByRetrySession /\ xfer.state # "idle") => RetriedToTheEnd
    /\ (phase = "ready" /\ session = "fresh") => Retries = 5

\* C8 as amended: a request of a method other than POST and PATCH is retried
\* so; a POST or PATCH request is attempted once and the server's answer,
\* 503 when k >= 1, is returned; and the client's own session has n = 5.
C8_IdempotentRequestRetried ==
    /\ (/\ BuiltByRetrySession
        /\ xfer.meth \in {"get", "head", "put", "delete", "options"}) =>
          RetriedToTheEnd
    /\ (/\ BuiltByRetrySession
        /\ xfer.meth \in {"post", "patch"}
        /\ xfer.state # "sending") =>
          /\ xfer.state = "returned"
          /\ xfer.attempts = 1
          /\ xfer.status = IF xfer.k >= 1 THEN 503 ELSE 200
    /\ (phase = "ready" /\ session = "fresh") => Retries = 5

\* on the client's own session, a GET answered 503 six times has failed
\* after six attempts
C8_Witness ==
    /\ phase = "ready"
    /\ session = "fresh"
    /\ xfer.meth = "get"
    /\ xfer.k = 6
    /\ xfer.state = "raised"
    /\ xfer.attempts = 6

-----------------------------------------------------------------------------
(* authorize_oauth, checked under Spec.                                    *)

\* C11: every call of authorize_oauth() ends in one of two ways.  When an
\* oauth_* entry is missing from the configuration or the token fetch raises,
\* it raises ElectronBondAuthError carrying the message of that exception,
\* and no header of any session changes.  Otherwise it returns the fetched
\* access token and the session's Authorization header is "Bearer " followed
\* by that token, its other headers unchanged.
C11_OAuthTwoOutcomes ==
    [][ AuthorizeOAuth =>
          /\ outcome'.op = "authorize_oauth"
          /\ IF ~config.oauth \/ reply'.kind = "error"
             THEN /\ outcome'.kind = "raise"
                  /\ outcome'.exc = "ElectronBondAuthError"
                  /\ outcome'.val = IF ~config.oauth THEN "'oauth_client_id'"
                                    ELSE reply'.msg
                  /\ headers' = headers
             ELSE /\ reply'.kind = "token"
                  /\ outcome'.kind = "return"
                  /\ outcome'.exc = "none"
                  /\ outcome'.val = reply'.token
                  /\ headers'[session].Authorization = "Bearer " \o reply'.token
                  /\ headers'[session].Accept = headers[session].Accept
                  /\ headers'[session].UserAgent = headers[session].UserAgent
                  /\ \A s \in Sessions \ {session} : headers'[s] = headers[s]
      ]_vars

\* a client configured without the oauth_* entries holds the header of a
\* password authorisation, and authorize_oauth() has just failed on it
C11_Witness ==
    /\ phase = "ready"
    /\ ~config.oauth
    /\ outcome.op = "authorize_oauth"
    /\ outcome.kind = "raise"
    /\ outcome.exc = "ElectronBondAuthError"
    /\ outcome.val = "'oauth_client_id'"
    /\ headers[session].Authorization = "Bearer xyz"

-----------------------------------------------------------------------------
(* The requests of get_paged, checked under SpecPaged.                     *)

\* the first page number of a call: the caller's `page` if given, else 1
FirstPage(caller) == IF caller.given /\ caller.page # 0 THEN caller.page ELSE 1

\* C12: the i-th GET of a get_paged call carries page = p0 + i - 1, p0 being
\* the caller's `page` or else 1, and the caller's other entry of `params` as
\* given; the caller's other keyword arguments go with the first GET and with
\* no later one; and the request last sent is the last of them, for the URL
\* the call was given.
C12_ConsecutivePages ==
    LET G == gen[1]
    IN  /\ Len(G.reqs) = G.gets
        /\ \A i \in 1..Len(G.reqs) :
              /\ G.reqs[i].params.page = FirstPage(G.caller) + i - 1
              /\ G.reqs[i].params.q = (G.caller.given /\ G.caller.q)
              /\ G.reqs[i].kw = (i = 1 /\ G.kw)
        /\ G.gets > 0 =>
              /\ sent.meth = "get" /\ sent.arg = G.url
              /\ sent.params = G.reqs[G.gets].params
              /\ sent.kw = G.reqs[G.gets].kw

\* three pages were requested for a caller who gave page 2 and other keyword
\* arguments: pages 2, 3, 4, the keyword arguments with the first only
C12_Witness ==
    /\ gen[1].caller = [given |-> TRUE, page |-> 2, q |-> FALSE]
    /\ gen[1].kw
    /\ gen[1].gets = 3
    /\ gen[1].reqs[1] = [params |-> [page |-> 2, q |-> FALSE], kw |-> TRUE]
    /\ gen[1].reqs[2] = [params |-> [page |-> 3, q |-> FALSE], kw |-> FALSE]
    /\ gen[1].reqs[3] = [params |-> [page |-> 4, q |-> FALSE], kw |-> FALSE]
    /\ sent.params.page = 4 /\ ~sent.kw

\* the pages fetched so far whose items have all been handed to the consumer
Delivered(G) ==
    Cardinality({ k \in 1..Len(G.served) :
                    Len(Concat(SubSeq(G.served, 1, k))) <= Len(G.yielded) })

\* C13: get_paged is lazy.  Until the first next() no GET has been issued and
\* nothing has run; the GETs issued never exceed by more than one the pages
\* whose items have all been handed out.  In every step at most one item is
\* produced, by a next() that leaves the sequence suspended at it, and every
\* step that leaves it suspended produces one; at most one GET is issued, by
\* a next(), and a GET after the first only when every item of the page
\* before it had already been handed out when that next() was called.
C13_Lazy ==
    /\ [](/\ gen[1].pc \in {"none", "created"} =>
               gen[1].gets = 0 /\ gen[1].yielded = << >> /\ sent = NoRequest
          /\ gen[1].gets <= 1 + Delivered(gen[1]))
    /\ [][ LET G == gen[1]
               H == gen'[1]
           IN  /\ H.yielded # G.yielded =>
                     /\ outcome'.op = "next" /\ outcome'.kind = "yield"
                     /\ H.yielded = Append(G.yielded, outcome'.val)
                     /\ H.pc = "suspended"
               /\ (H # G /\ H.pc = "suspended") =>
                     Len(H.yielded) = Len(G.yielded) + 1
               /\ H.gets # G.gets =>
                     /\ H.gets = G.gets + 1
                     /\ outcome'.op = "next"
                     /\ G.pc \in {"created", "suspended"}
                     /\ G.pc = "created" => G.gets = 0
                     /\ G.pc = "suspended" =>
                           /\ G.gets = Len(G.served)
                           /\ Len(G.yielded) = Len(Concat(G.served))
                           /\ Len(H.yielded) <= Len(G.yielded) + 1
         ]_vars

\* both items of the first page were handed out before the second page was
\* requested, and the first item of the second page has been produced
C13_Witness ==
    /\ gen[1].pc = "suspended"
    /\ gen[1].gets = 2
    /\ gen[1].served = << Page(<<"x", "y">>, TRUE), Page(<<"x", "y">>, TRUE) >>
    /\ gen[1].yielded = <<"x", "y", "x">>
    /\ Delivered(gen[1]) = 1

-----------------------------------------------------------------------------
(* Two get_paged sequences on one client, checked under SpecTwo.           *)

\* C14: the page state belongs to the call.  Each of two sequences, consumed
\* in any interleaving, requests its own consecutive pages from its own first
\* page number with its own params, and has yielded the items of the pages
\* it was served itself, in order.  A step that advances one sequence leaves
\* the other as it was, and a GET issued in the step is for the URL, the
\* params and the next page number of the sequence that was advanced.
C14_PageStateLocal ==
    /\ [](\A g \in GenIds :
            LET G == gen[g]
            IN  /\ Len(G.reqs) = G.gets
                /\ \A i \in 1..Len(G.reqs) :
                      /\ G.reqs[i].params.page = FirstPage(G.caller) + i - 1
                      /\ G.reqs[i].params.q = (G.caller.given /\ G.caller.q)
                /\ (G.gets > 0 /\ G.pc # "raised") =>
                      G.params.page = FirstPage(G.caller) + G.gets - 1
                /\ IsPrefix(G.yielded, Concat(G.served)))
    /\ [][ \A g \in GenIds :
             gen'[g] # gen[g] =>
                /\ \A h \in GenIds \ {g} : gen'[h] = gen[h]
                /\ gen'[g].gets > gen[g].gets =>
                      /\ sent'.arg = gen[g].url
                      /\ sent'.params.page = FirstPage(gen[g].caller) + gen[g].gets
                      /\ sent'.params.q = (gen[g].caller.given /\ gen[g].caller.q)
         ]_vars

\* both sequences are suspended part-way, on different URLs and with
\* different params: the first has requested pages 1 to 3, the second, whose
\* caller gave page 2, pages 2 and 3, and the last GET was the second's
C14_Witness ==
    /\ gen[1].pc = "suspended" /\ gen[2].pc = "suspended"
    /\ gen[1].url = <<"/", "a">> /\ gen[2].url = <<"/", "a", "/", "a">>
    /\ gen[1].caller = [given |-> TRUE, page |-> 0, q |-> TRUE]
    /\ gen[2].caller = [given |-> TRUE, page |-> 2, q |-> FALSE]
    /\ gen[1].gets = 3 /\ gen[1].params.page = 3
    /\ gen[2].gets = 2 /\ gen[2].params.page = 3
    /\ gen[1].yielded = <<"y", "y", "x">>
    /\ gen[2].yielded = <<"y", "y">>
    /\ sent.arg = gen[2].url /\ sent.params = [page |-> 3, q |-> FALSE]

-----------------------------------------------------------------------------
(* Abandoning a sequence, checked under SpecPaged.                         *)

\* C15 as claimed: in both variants, close() on a sequence suspended after
\* an item returns without raising, ends the sequence, and issues no GET.
C15_AbandonSilent ==
    [][ Close(1) =>
          /\ outcome'.op = "close"
          /\ outcome'.kind = "return" /\ outcome'.exc = "none"
          /\ gen'[1].pc = "closed" /\ gen'[1].exc = "none"
          /\ gen'[1].gets = gen[1].gets /\ sent' = sent
      ]_vars

-----------------------------------------------------------------------------
(* Feeding a full URL back to a verb, checked under SpecFeed.              *)

\* C16 as claimed: whenever a verb is called with the full URL of the request
\* made before it, the request goes to that same full URL.
C16_RewriteIdempotent ==
    [][ (sent.via = "proxy" /\ sent'.via = "proxy" /\ sent'.arg = sent.url) =>
            sent'.url = sent.url
      ]_vars

-----------------------------------------------------------------------------
(* The caller's params and the configuration, checked under SpecAgain.     *)

\* C17: no step of a get_paged sequence, however far it is consumed, changes
\* the mapping its caller passed as `params` (no `page` entry appears in it,
\* no entry changes) or the client's configuration; so a second call given
\* that mapping has the same params to start from, and its first GET asks
\* for the page the first call's first GET asked for.
C17_CallerParamsUntouched ==
    /\ [][ /\ \A g \in GenIds :
                gen[g].pc # "none" => gen'[g].caller = gen[g].caller
           /\ phase = "ready" => config' = config
         ]_vars
    /\ [](gen[2].pc # "none" =>
            /\ gen[1].gets > 0
            /\ gen[2].caller = gen[1].caller
            /\ gen[1].reqs[1].params.page = FirstPage(gen[1].caller)
            /\ gen[2].gets > 0 =>
                  /\ gen[2].reqs[1].params = gen[1].reqs[1].params
                  /\ gen[2].reqs[1].params.page = FirstPage(gen[2].caller))

\* the first call, given params without `page`, went on to page 3; the
\* mapping still has no `page`, and the second call given it began at page 1
C17_Witness ==
    /\ gen[1].caller = [given |-> TRUE, page |-> 0, q |-> TRUE]
    /\ gen[1].gets = 3
    /\ gen[1].params = [page |-> 3, q |-> TRUE]
    /\ gen[2].caller = [given |-> TRUE, page |-> 0, q |-> TRUE]
    /\ gen[2].gets = 1
    /\ gen[2].reqs[1].params = [page |-> 1, q |-> TRUE]
    /\ config.baseurl \in OneBase

=============================================================================
